---- MODULE Spec2Model ----
(***************************************************************************)
(* Two-phase crawl of HybridCrawler (src/src/index.ts) and                 *)
(* ContentHarvester (src/src/content_harvester.ts): a Cheerio fast pass    *)
(* and a Playwright render pass over one shared RequestQueue.              *)
(*                                                                         *)
(* The crawlee library is modelled at its interface: a RequestQueue that   *)
(* deduplicates by uniqueKey and hands out pending requests in insertion   *)
(* order, and a crawler that starts a task while its handled-request count *)
(* is below maxRequestsPerCrawl and fewer than maxConcurrency tasks run,   *)
(* and whose run() resolves once no task runs and either the queue holds   *)
(* no pending request or the budget is used up. A crawler's run() begins   *)
(* by loading its handled-request count from its queue                     *)
(* (BasicCrawler._loadHandledRequestCount), so two crawlers on one queue   *)
(* draw on the same budget.                                                *)
(***************************************************************************)
EXTENDS Integers, Sequences, FiniteSets, TLC

\* ---------------------------------------------------------------- bounds
MaxSeeds == 2
MaxBudget == 4
MaxConc == 2

\* ------------------------------------------------------ program constants
FallbackCap == 10

UrlNames == <<"a", "b", "c", "d", "e", "f", "g", "h", "i", "j", "k", "l", "m">>

VARIABLES
  variant,              \* "hybrid" (HybridCrawler) or "harvester" (ContentHarvester)
  startUrls,            \* config.startUrls
  maxRequestsPerCrawl,  \* config.maxRequestsPerCrawl
  httpConcurrency,      \* concurrency of the Cheerio crawler
  jsConcurrency,        \* concurrency of the Playwright crawler
  staticKinds,          \* what static fetches of the crawled site can yield
  renderKinds,          \* what rendered navigations of the crawled site can yield
  pc,                   \* position of run()
  i,                    \* loop index of the for-loop run() is in
  requestQueue,         \* the shared RequestQueue, in insertion order
  cheerioHandled,       \* handledRequestsCount of the Cheerio crawler
  playwrightHandled,    \* handledRequestsCount of the Playwright crawler
  stats,                \* HybridCrawler.stats
  fallbackUrls,         \* this.fallbackUrls
  dataset,              \* Dataset 'content-harvest'
  defaultDataset,       \* the default Dataset (HybridCrawler)
  fastLog,              \* history, per URL: finished fast-path handler invocations
  jsLog,                \* history, per URL: finished render-path handler invocations
  call,                 \* the extraction function under evaluation and its input
  ret,                  \* what the evaluations of call have returned, in order
  frames,               \* the pending calls of a recursive extraction function
  server                \* the /harvest requests of the server process

config == <<variant, startUrls, maxRequestsPerCrawl, httpConcurrency,
            jsConcurrency, staticKinds, renderKinds>>
extraction == <<call, ret, frames>>
vars == <<variant, startUrls, maxRequestsPerCrawl, httpConcurrency,
          jsConcurrency, staticKinds, renderKinds, pc, i, requestQueue,
          cheerioHandled, playwrightHandled, stats, fallbackUrls, dataset,
          defaultDataset, fastLog, jsLog, call, ret, frames, server>>

\* ------------------------------------------------------------- helpers
Range(s) == {s[k] : k \in 1..Len(s)}

\* A history with one more entry for the URL.
Logged(log, url, entry) == [log EXCEPT ![url] = Append(@, entry)]

\* Number of entries of a history.
RECURSIVE CountOver(_, _)
CountOver(log, urls) ==
  IF urls = {} THEN 0
  ELSE LET u == CHOOSE x \in urls : TRUE
       IN Len(log[u]) + CountOver(log, urls \ {u})
LogCount(log) == CountOver(log, DOMAIN log)

\* A seed URL that carries the fragment the re-enqueue key is built with.
FragmentSeed == UrlNames[1] \o "#js-fallback"

\* Seed lists up to renaming of URLs: the k-th new URL of a list is
\* UrlNames[k]; any seed may also be FragmentSeed.
RECURSIVE SeedLists(_)
SeedLists(n) ==
  IF n = 0 THEN {<<>>}
  ELSE UNION {{Append(s, UrlNames[k]) :
                 k \in 1..(Cardinality(Range(s) \cap Range(UrlNames)) + 1)}
              \cup {Append(s, FragmentSeed)}
              : s \in SeedLists(n - 1)}

LongSeedList == [k \in 1..(FallbackCap + 1) |-> UrlNames[k]]

\* What the static fetch of a page can lead to in the Cheerio handler.
HybridStaticKinds == {"complete", "missing", "throws", "fetchfail"}
HarvesterStaticKinds == {"complete", "missing", "throws", "invalid", "fetchfail"}
\* What the navigation and extraction of a rendered page can lead to.
AllRenderKinds == {"ok", "throws", "navfail"}

Configs ==
  [variant : {"hybrid"},
   startUrls : UNION {SeedLists(n) : n \in 0..MaxSeeds},
   maxRequestsPerCrawl : 1..MaxBudget,
   httpConcurrency : 1..MaxConc,
   jsConcurrency : 1..MaxConc,
   staticKinds : {HybridStaticKinds},
   renderKinds : {AllRenderKinds}]
  \cup
  [variant : {"harvester"},
   startUrls : UNION {SeedLists(n) : n \in 0..MaxSeeds},
   maxRequestsPerCrawl : 1..MaxBudget,
   httpConcurrency : 1..MaxConc,
   jsConcurrency : 1..MaxConc,
   staticKinds : {HarvesterStaticKinds},
   renderKinds : {AllRenderKinds}]
  \cup
  \* a long run on a site without failures, enough seeds to fill fallbackUrls
  [variant : {"hybrid"},
   startUrls : {LongSeedList},
   maxRequestsPerCrawl : {Len(LongSeedList), 2 * Len(LongSeedList)},
   httpConcurrency : {1},
   jsConcurrency : {1},
   staticKinds : {{"complete", "missing"}},
   renderKinds : {{"ok"}}]

\* ------------------------------------------------ RequestQueue (crawlee)
\* Request.uniqueKey of { url }: the normalised URL, which has no fragment.
\* The URLs of UrlNames are in normal form, so each is its own key.
PlainUrls == Range(UrlNames)
SeedKey(url) ==
  IF url \in PlainUrls THEN url
  ELSE IF \E b \in PlainUrls : url = b \o "#js-fallback"
       THEN CHOOSE b \in PlainUrls : url = b \o "#js-fallback"
       ELSE url
\* A re-enqueue that leaves the key to be computed from the URL.
FallbackKeyFromUrl(url) == SeedKey(url)
\* uniqueKey: `${url}#js-fallback`
FallbackKey(url) == url \o "#js-fallback"

SeedRequest(url) ==
  [url |-> url, uniqueKey |-> SeedKey(url), needsJs |-> FALSE, status |-> "pending"]
FallbackRequest(url) ==
  [url |-> url, uniqueKey |-> FallbackKey(url), needsJs |-> TRUE, status |-> "pending"]

\* requestQueue.addRequest: a request whose uniqueKey is known is not added again.
AddRequest(q, req) ==
  IF \E k \in 1..Len(q) : q[k].uniqueKey = req.uniqueKey THEN q ELSE Append(q, req)

Pending(q) == {k \in 1..Len(q) : q[k].status = "pending"}
Running(q, crawler) == {k \in 1..Len(q) : q[k].status = crawler}
\* fetchNextRequest: the oldest pending request.
NextPending(q) == CHOOSE k \in Pending(q) : \A m \in Pending(q) : k <= m

SetStatus(q, k, s) == [q EXCEPT ![k].status = s]

\* requestQueue.handledCount(): the requests marked handled, whoever did it.
HandledCount(q) == Cardinality({k \in 1..Len(q) : q[k].status = "handled"})

\* A crawler starts another task.
TaskReady(q, crawler, handled, concurrency) ==
  /\ handled < maxRequestsPerCrawl
  /\ Cardinality(Running(q, crawler)) < concurrency
  /\ Pending(q) # {}

\* A run that resolves only once the queue is empty.
RunReturnedWhenEmpty(q, crawler, handled) ==
  /\ Running(q, crawler) = {}
  /\ Pending(q) = {}

\* `await crawler.run()` resolves.
RunReturned(q, crawler, handled) ==
  /\ Running(q, crawler) = {}
  /\ \/ Pending(q) = {}
     \/ handled >= maxRequestsPerCrawl

\* ------------------------------------------------------------ statistics
\* Truncation towards zero instead of rounding.
MathTrunc(n, d) == n \div d
\* Math.round(n / d) for n >= 0, d > 0: halves round up.
MathRound(n, d) == (2 * n + d) \div (2 * d)

JsRate(js_processed, http_ok) ==
  LET denominator == http_ok + js_processed
  IN IF denominator > 0 THEN MathRound(js_processed * 100, denominator) ELSE 0

InitStats ==
  [seen |-> 0, http_ok |-> 0, fallback_enqueued |-> 0, js_processed |-> 0, js_rate |-> 0]

\* ------------------------------------------------------------------ Init
\* No extraction function is under evaluation.
NoCall == [fn |-> "none"]
\* The number of /harvest requests a server process gets.
MaxRequests == 2

\* A request slot of the server no request has arrived for, and the
\* response of a request that has not been answered.
NoResponse ==
  [status |-> 0, success |-> FALSE, data |-> <<>>, positions |-> {},
   stats |-> [total |-> 0, http |-> 0, js |-> 0]]
NoRequest ==
  [pc |-> "none", body |-> "none", urls |-> <<>>, maxRequestsPerCrawl |-> 0, i |-> 1,
   handled |-> 0, fallbackUrls |-> <<>>, response |-> NoResponse]
\* The server process before its first request: producedBy[k] is the
\* request whose run pushed dataset[k], outcomes the handler invocations,
\* concurrent whether a request arrived while another was being processed.
ServerIdle ==
  [requests |-> [r \in 1..MaxRequests |-> NoRequest],
   producedBy |-> <<>>,
   outcomes |-> {},
   concurrent |-> FALSE]

\* The crawler as constructed from cfg, before run().
Constructed(cfg) ==
  /\ variant = cfg.variant
  /\ startUrls = cfg.startUrls
  /\ maxRequestsPerCrawl = cfg.maxRequestsPerCrawl
  /\ httpConcurrency = cfg.httpConcurrency
  /\ jsConcurrency = cfg.jsConcurrency
  /\ staticKinds = cfg.staticKinds
  /\ renderKinds = cfg.renderKinds
  /\ fastLog = [u \in Range(cfg.startUrls) |-> <<>>]
  /\ jsLog = [u \in Range(cfg.startUrls) |-> <<>>]
  /\ pc = "seed"
  /\ i = 1
  /\ requestQueue = <<>>
  /\ cheerioHandled = 0
  /\ playwrightHandled = 0
  /\ stats = InitStats
  /\ fallbackUrls = <<>>
  /\ dataset = <<>>
  /\ defaultDataset = <<>>

Init ==
  /\ \E cfg \in Configs : Constructed(cfg)
  /\ server = ServerIdle
  /\ call = NoCall
  /\ ret = <<>>
  /\ frames = <<>>

\* -------------------------------------------------------- run(): seeding
\* for (const url of this.config.startUrls) await this.requestQueue.addRequest({ url })
AddSeed ==
  /\ pc = "seed"
  /\ i <= Len(startUrls)
  /\ requestQueue' = AddRequest(requestQueue, SeedRequest(startUrls[i]))
  /\ i' = i + 1
  /\ UNCHANGED <<extraction, server, config, pc, cheerioHandled, playwrightHandled, stats,
                 fallbackUrls, dataset, defaultDataset, fastLog, jsLog>>

\* this.cheerioCrawler.run() is called
StartCheerio ==
  /\ pc = "seed"
  /\ i > Len(startUrls)
  /\ pc' = "fast"
  /\ cheerioHandled' = HandledCount(requestQueue)
  /\ UNCHANGED <<extraction, server, config, i, requestQueue, playwrightHandled,
                 stats, fallbackUrls, dataset, defaultDataset, fastLog, jsLog>>

\* ------------------------------------------------- fast pass (Cheerio)
\* HybridCrawler: the static fetch of the next request succeeded and the
\* handler starts; it counts the request as seen before its first await.
HybridFastStart ==
  /\ pc = "fast"
  /\ variant = "hybrid"
  /\ TaskReady(requestQueue, "cheerio", cheerioHandled, httpConcurrency)
  /\ staticKinds \ {"fetchfail"} # {}
  /\ requestQueue' = SetStatus(requestQueue, NextPending(requestQueue), "cheerio")
  /\ stats' = [stats EXCEPT !.seen = @ + 1]
  /\ UNCHANGED <<extraction, server, config, pc, i, cheerioHandled, playwrightHandled,
                 fallbackUrls, dataset, defaultDataset, fastLog, jsLog>>

\* ContentHarvester: the static fetch succeeded and the handler starts.
HarvesterFastStart ==
  /\ pc = "fast"
  /\ variant = "harvester"
  /\ TaskReady(requestQueue, "cheerio", cheerioHandled, httpConcurrency)
  /\ staticKinds \ {"fetchfail"} # {}
  /\ requestQueue' = SetStatus(requestQueue, NextPending(requestQueue), "cheerio")
  /\ UNCHANGED <<extraction, server, config, pc, i, cheerioHandled, playwrightHandled, stats,
                 fallbackUrls, dataset, defaultDataset, fastLog, jsLog>>

\* The static fetch failed for good: the handler is never called.
FastFetchFail ==
  /\ pc = "fast"
  /\ TaskReady(requestQueue, "cheerio", cheerioHandled, httpConcurrency)
  /\ "fetchfail" \in staticKinds
  /\ requestQueue' = SetStatus(requestQueue, NextPending(requestQueue), "handled")
  /\ cheerioHandled' = cheerioHandled + 1
  /\ UNCHANGED <<extraction, server, config, pc, i, playwrightHandled, stats, fallbackUrls,
                 dataset, defaultDataset, fastLog, jsLog>>

\* A value of type string | undefined: undefined, or the string s.
Undefined == {}
Str(s) == {s}
\* JavaScript's ToBoolean on such a value: undefined and '' are falsy.
Truthy(v) == v # Undefined /\ v # Str("")
\* a && b: a when a is falsy, else b.
JsAnd(a, b) == IF Truthy(a) THEN b ELSE a
\* a || b: a when a is truthy, else b.
JsOr(a, b) == IF Truthy(a) THEN a ELSE b

CRITICAL_FIELDS == {"serviceTitle", "provider", "priceText"}

\* A judge that is satisfied by any one of the fields.
hasAnyCriticalField(data) ==
  Truthy(JsOr(JsOr(data.serviceTitle, data.provider), data.priceText))

\* ParseUtils.hasCriticalFields:
\* !!(data.serviceTitle && data.provider && data.priceText)
hasCriticalFields(data) ==
  Truthy(JsAnd(JsAnd(data.serviceTitle, data.provider), data.priceText))

\* ContentHarvester's test for deferring: !doc.title || !doc.main_text
needsFallback(doc) == ~Truthy(doc.title) \/ ~Truthy(doc.main_text)

\* The probe data the Cheerio extractors yield on a page of the given kind.
ProbeOf(kind) ==
  IF kind = "complete"
  THEN [serviceTitle |-> Str("t"), provider |-> Str("p"), priceText |-> Str("1 kr")]
  ELSE [serviceTitle |-> Str("t"), provider |-> Undefined, priceText |-> Undefined]

\* HybridCrawler's Cheerio handler, after stats.seen++: the counters.
HybridCheerioStats(st, kind) ==
  IF kind = "throws" THEN st                       \* catch: console.error only
  ELSE IF hasCriticalFields(ProbeOf(kind))
       THEN [st EXCEPT !.http_ok = @ + 1]
       ELSE [st EXCEPT !.fallback_enqueued = @ + 1]

\* A fallback list without the limit of ten URLs.
HybridCheerioFallbackUncapped(fb, kind, url) ==
  IF kind = "missing" THEN Append(fb, url) ELSE fb

\* HybridCrawler's Cheerio handler: the fallback list.
HybridCheerioFallback(fb, kind, url) ==
  IF kind # "throws" /\ ~hasCriticalFields(ProbeOf(kind)) /\ Len(fb) < FallbackCap
  THEN Append(fb, url)
  ELSE fb

HybridFastFinish(k) ==
  /\ variant = "hybrid"
  /\ requestQueue[k].status = "cheerio"
  /\ \E kind \in staticKinds \ {"fetchfail"} :
       /\ stats' = HybridCheerioStats(stats, kind)
       /\ fallbackUrls' = HybridCheerioFallback(fallbackUrls, kind, requestQueue[k].url)
       /\ fastLog' = Logged(fastLog, requestQueue[k].url, kind)
  /\ requestQueue' = SetStatus(requestQueue, k, "handled")
  /\ cheerioHandled' = cheerioHandled + 1
  /\ UNCHANGED <<extraction, server, config, pc, i, playwrightHandled, dataset, defaultDataset, jsLog>>

\* The document ContentHarvester's Cheerio handler assembles.
CheerioDoc(url) == [url |-> url, render_mode |-> "http"]
\* The document ContentHarvester's Playwright handler assembles.
\* A rendered page with render_mode 'http'.
PlaywrightDocHttp(url) == [url |-> url, render_mode |-> "http"]
PlaywrightDoc(url) == [url |-> url, render_mode |-> "js"]

\* The defer branch without its return: the document is saved as well.
HarvesterCheerioDatasetNoReturn(ds, kind, url) ==
  IF kind \in {"complete", "missing"} THEN Append(ds, CheerioDoc(url)) ELSE ds

\* A handler that saves the assembled document without validating it.
HarvesterCheerioDatasetNoValidate(ds, kind, url) ==
  IF kind \in {"complete", "invalid"} THEN Append(ds, CheerioDoc(url)) ELSE ds

\* ContentHarvester's Cheerio handler: what reaches dataset.pushData.
\* "missing": title or main_text is absent, the handler returns before saving;
\* "invalid": ContentDocSchema.parse throws; "throws": an extractor throws.
HarvesterCheerioDataset(ds, kind, url) ==
  IF kind = "complete" THEN Append(ds, CheerioDoc(url)) ELSE ds

\* ContentHarvester's Cheerio handler: fallbackUrls.push in the defer branch
\* and in the catch block.
HarvesterCheerioFallback(fb, kind, url) ==
  IF kind \in {"missing", "invalid", "throws"} THEN Append(fb, url) ELSE fb

HarvesterFastFinish(k) ==
  /\ variant = "harvester"
  /\ requestQueue[k].status = "cheerio"
  /\ \E kind \in staticKinds \ {"fetchfail"} :
       /\ dataset' = HarvesterCheerioDataset(dataset, kind, requestQueue[k].url)
       /\ fallbackUrls' = HarvesterCheerioFallback(fallbackUrls, kind, requestQueue[k].url)
       /\ fastLog' = Logged(fastLog, requestQueue[k].url, kind)
  /\ requestQueue' = SetStatus(requestQueue, k, "handled")
  /\ cheerioHandled' = cheerioHandled + 1
  /\ UNCHANGED <<extraction, server, config, pc, i, playwrightHandled, stats, defaultDataset, jsLog>>

\* ------------------------------------------------------- run(): barrier
\* A run() that goes on as soon as no task can be started, without waiting
\* for the handlers that are still running.
CheerioRunNotDrained ==
  Pending(requestQueue) = {} \/ cheerioHandled >= maxRequestsPerCrawl
\* `await this.cheerioCrawler.run()` lets run() go on.
CheerioRunAwaited == RunReturned(requestQueue, "cheerio", cheerioHandled)

\* run() is past the fast pass; HybridCrawler compares the counters and
\* only warns on a mismatch.
CheerioDone ==
  /\ pc = "fast"
  /\ CheerioRunAwaited
  /\ pc' = "barrier"
  /\ i' = 1
  /\ UNCHANGED <<extraction, server, config, requestQueue, cheerioHandled, playwrightHandled, stats,
                 fallbackUrls, dataset, defaultDataset, fastLog, jsLog>>

\* for (const url of this.fallbackUrls) await this.requestQueue.addRequest({...})
ReEnqueue ==
  /\ pc = "barrier"
  /\ i <= Len(fallbackUrls)
  /\ requestQueue' = AddRequest(requestQueue, FallbackRequest(fallbackUrls[i]))
  /\ i' = i + 1
  /\ UNCHANGED <<extraction, server, config, pc, cheerioHandled, playwrightHandled, stats,
                 fallbackUrls, dataset, defaultDataset, fastLog, jsLog>>

\* HybridCrawler always runs the Playwright crawler.
HybridRunsPlaywright == TRUE
\* ContentHarvester runs it only when fallbackUrls is not empty.
HarvesterRunsPlaywright == Len(fallbackUrls) > 0

StartPlaywright ==
  /\ pc = "barrier"
  /\ i > Len(fallbackUrls)
  /\ pc' = IF (variant = "hybrid" /\ HybridRunsPlaywright)
              \/ (variant = "harvester" /\ HarvesterRunsPlaywright)
           THEN "render" ELSE "done"
  /\ playwrightHandled' = IF pc' = "render" THEN HandledCount(requestQueue)
                                             ELSE playwrightHandled
  /\ UNCHANGED <<extraction, server, config, i, requestQueue, cheerioHandled,
                 stats, fallbackUrls, dataset, defaultDataset, fastLog, jsLog>>

\* --------------------------------------------- render pass (Playwright)
\* A handler that keeps js_rate up to date with every page it renders.
HybridPlaywrightStatsWithRate(st, needsJs) ==
  IF needsJs
  THEN [st EXCEPT !.js_processed = @ + 1,
                  !.js_rate = JsRate(st.js_processed + 1, st.http_ok)]
  ELSE st
\* HybridCrawler's Playwright handler up to its first await: the needsJs
\* guard, then stats.js_processed++.
HybridPlaywrightStats(st, needsJs) ==
  IF needsJs THEN [st EXCEPT !.js_processed = @ + 1] ELSE st

\* HybridCrawler: navigation succeeded and the handler starts; for a needsJs
\* request it counts js_processed before its first await.
HybridRenderStart ==
  /\ pc = "render"
  /\ variant = "hybrid"
  /\ TaskReady(requestQueue, "playwright", playwrightHandled, jsConcurrency)
  /\ renderKinds \ {"navfail"} # {}
  /\ LET k == NextPending(requestQueue) IN
       /\ requestQueue' = SetStatus(requestQueue, k, "playwright")
       /\ stats' = HybridPlaywrightStats(stats, requestQueue[k].needsJs)
  /\ UNCHANGED <<extraction, server, config, pc, i, cheerioHandled, playwrightHandled,
                 fallbackUrls, dataset, defaultDataset, fastLog, jsLog>>

HarvesterRenderStart ==
  /\ pc = "render"
  /\ variant = "harvester"
  /\ TaskReady(requestQueue, "playwright", playwrightHandled, jsConcurrency)
  /\ renderKinds \ {"navfail"} # {}
  /\ requestQueue' = SetStatus(requestQueue, NextPending(requestQueue), "playwright")
  /\ UNCHANGED <<extraction, server, config, pc, i, cheerioHandled, playwrightHandled, stats,
                 fallbackUrls, dataset, defaultDataset, fastLog, jsLog>>

\* Navigation failed for good: the handler is never called.
RenderNavFail ==
  /\ pc = "render"
  /\ TaskReady(requestQueue, "playwright", playwrightHandled, jsConcurrency)
  /\ "navfail" \in renderKinds
  /\ requestQueue' = SetStatus(requestQueue, NextPending(requestQueue), "handled")
  /\ playwrightHandled' = playwrightHandled + 1
  /\ UNCHANGED <<extraction, server, config, pc, i, cheerioHandled, stats, fallbackUrls,
                 dataset, defaultDataset, fastLog, jsLog>>

\* A handler without the needsJs guard.
HybridPlaywrightDatasetNoGuard(ds, needsJs, kind, url) ==
  IF kind = "ok" THEN Append(ds, [url |-> url]) ELSE ds

\* HybridCrawler's Playwright handler: Dataset.pushData inside the try block.
HybridPlaywrightDataset(ds, needsJs, kind, url) ==
  IF needsJs /\ kind = "ok" THEN Append(ds, [url |-> url]) ELSE ds

HybridRenderFinish(k) ==
  /\ variant = "hybrid"
  /\ requestQueue[k].status = "playwright"
  /\ \E kind \in renderKinds \ {"navfail"} :
       /\ defaultDataset' = HybridPlaywrightDataset(defaultDataset,
                               requestQueue[k].needsJs, kind, requestQueue[k].url)
       /\ jsLog' = Logged(jsLog, requestQueue[k].url,
                         [needsJs |-> requestQueue[k].needsJs,
                          kind |-> IF requestQueue[k].needsJs THEN kind ELSE "skip"])
  /\ requestQueue' = SetStatus(requestQueue, k, "handled")
  /\ playwrightHandled' = playwrightHandled + 1
  /\ UNCHANGED <<extraction, server, config, pc, i, cheerioHandled, stats, fallbackUrls, dataset, fastLog>>

\* ContentHarvester's Playwright handler: returns at once unless needsJs;
\* "throws": an extraction step or ContentDocSchema.parse throws and the
\* catch block only logs.
HarvesterPlaywrightDataset(ds, needsJs, kind, url) ==
  IF needsJs /\ kind = "ok" THEN Append(ds, PlaywrightDoc(url)) ELSE ds

HarvesterRenderFinish(k) ==
  /\ variant = "harvester"
  /\ requestQueue[k].status = "playwright"
  /\ \E kind \in renderKinds \ {"navfail"} :
       /\ dataset' = HarvesterPlaywrightDataset(dataset,
                        requestQueue[k].needsJs, kind, requestQueue[k].url)
       /\ jsLog' = Logged(jsLog, requestQueue[k].url,
                         [needsJs |-> requestQueue[k].needsJs,
                          kind |-> IF requestQueue[k].needsJs THEN kind ELSE "skip"])
  /\ requestQueue' = SetStatus(requestQueue, k, "handled")
  /\ playwrightHandled' = playwrightHandled + 1
  /\ UNCHANGED <<extraction, server, config, pc, i, cheerioHandled, stats, fallbackUrls,
                 defaultDataset, fastLog>>

\* `await this.playwrightCrawler.run()` lets run() go on.
PlaywrightRunAwaited == RunReturned(requestQueue, "playwright", playwrightHandled)

\* HybridCrawler.run() computes js_rate once and logs the statistics.
HybridPlaywrightDone ==
  /\ pc = "render"
  /\ variant = "hybrid"
  /\ PlaywrightRunAwaited
  /\ stats' = [stats EXCEPT !.js_rate = JsRate(stats.js_processed, stats.http_ok)]
  /\ pc' = "done"
  /\ UNCHANGED <<extraction, server, config, i, requestQueue, cheerioHandled, playwrightHandled,
                 fallbackUrls, dataset, defaultDataset, fastLog, jsLog>>

HarvesterPlaywrightDone ==
  /\ pc = "render"
  /\ variant = "harvester"
  /\ PlaywrightRunAwaited
  /\ pc' = "done"
  /\ UNCHANGED <<extraction, server, config, i, requestQueue, cheerioHandled, playwrightHandled,
                 stats, fallbackUrls, dataset, defaultDataset, fastLog, jsLog>>

\* ------------------------------------------------------------------ Next
Next ==
  \/ AddSeed
  \/ StartCheerio
  \/ HybridFastStart
  \/ HarvesterFastStart
  \/ FastFetchFail
  \/ \E k \in 1..Len(requestQueue) : HybridFastFinish(k)
  \/ \E k \in 1..Len(requestQueue) : HarvesterFastFinish(k)
  \/ CheerioDone
  \/ ReEnqueue
  \/ StartPlaywright
  \/ HybridRenderStart
  \/ HarvesterRenderStart
  \/ RenderNavFail
  \/ \E k \in 1..Len(requestQueue) : HybridRenderFinish(k)
  \/ \E k \in 1..Len(requestQueue) : HarvesterRenderFinish(k)
  \/ HybridPlaywrightDone
  \/ HarvesterPlaywrightDone

Spec == Init /\ [][Next]_vars

\* The run where every started handler returns, the queue answers every
\* addRequest and fetchNextRequest, and every awaited promise of run() is
\* resumed: a step that can be taken is taken.
SpecLive == Init /\ [][Next]_vars /\ WF_vars(Next)

\* =================================================================
\* Field extraction: the functions the handlers call on a fetched page,
\* evaluated on their own on inputs drawn from bounded sets.
\* =================================================================
\* How often a function is evaluated on one input.
Evaluations == 2

crawl == <<config, pc, i, requestQueue, cheerioHandled, playwrightHandled, stats,
           fallbackUrls, dataset, defaultDataset, fastLog, jsLog>>

\* The values a field of type string | undefined is drawn from.
OptionalStrings == {Undefined, Str(""), Str("x")}

ProbeCalls ==
  {[fn |-> "hasCriticalFields", data |-> d] : d \in [CRITICAL_FIELDS -> OptionalStrings]}
DocCalls ==
  {[fn |-> "needsFallback", data |-> d] : d \in [{"title", "main_text"} -> OptionalStrings]}

\* if (ParseUtils.hasCriticalFields(probeData)) in the Cheerio handler
EvalHasCriticalFields ==
  /\ call.fn = "hasCriticalFields"
  /\ Len(ret) < Evaluations
  /\ ret' = Append(ret, hasCriticalFields(call.data))
  /\ UNCHANGED <<call, frames, crawl, server>>

\* if (!doc.title || !doc.main_text) in ContentHarvester's Cheerio handler
EvalNeedsFallback ==
  /\ call.fn = "needsFallback"
  /\ Len(ret) < Evaluations
  /\ ret' = Append(ret, needsFallback(call.data))
  /\ UNCHANGED <<call, frames, crawl, server>>

\* ----------------------------------------------------------- extractLinks
\* An href attribute, by what new URL() makes of it:
\*   "abs"    an absolute http(s) URL with a host,
\*   "rel"    a path, resolved against the page's URL,
\*   "mailto" a valid absolute URL whose hostname is '',
\*   "bad"    text that new URL() rejects,
\*   "empty"  the attribute value ''.
\* hash tells whether it carries a '#fragment'.
Href(kind, host, path, hash) == [kind |-> kind, host |-> host, path |-> path, hash |-> hash]

\* The page the anchors are on: request.url.
BaseUrl == Href("abs", "site", 0, FALSE)

\* extractDomain: new URL(url).hostname, '' when new URL throws.
extractDomain(url) == IF url.kind \in {"abs", "mailto"} THEN url.host ELSE ""

\* normalizeUrl: new URL(url, base) with the fragment removed; the raw url
\* when new URL throws.
normalizeUrl(url, baseUrl) ==
  IF url.kind = "bad" THEN url
  ELSE IF url.kind = "rel" THEN Href("abs", baseUrl.host, url.path, FALSE)
  ELSE [url EXCEPT !.hash = FALSE]

\* The entries of list at the positions of the set at, in order.
SubSeqAt(list, at) ==
  LET rank == [k \in at |-> Cardinality({m \in at : m <= k})]
  IN [j \in 1..Cardinality(at) |-> list[CHOOSE k \in at : rank[k] = j]]

\* The internal (or the external) array after the loop over a[href]: the
\* normalised URLs of the anchors whose domain passes the test, in order.
Collected(anchors, baseUrl, internal) ==
  LET normalized == [k \in 1..Len(anchors) |-> normalizeUrl(anchors[k], baseUrl)]
      pushed(k) ==
        /\ anchors[k].kind # "empty"
        /\ IF internal
           THEN extractDomain(normalized[k]) = extractDomain(baseUrl)
           ELSE /\ extractDomain(normalized[k]) # extractDomain(baseUrl)
                /\ extractDomain(normalized[k]) # ""
  IN SubSeqAt(normalized, {k \in 1..Len(anchors) : pushed(k)})

\* [...new Set(list)]: the first occurrence of each value, in order.
NewSet(list) ==
  SubSeqAt(list, {k \in 1..Len(list) : \A m \in 1..(k - 1) : list[m] # list[k]})

\* list.slice(0, n)
Slice(list, n) == SubSeq(list, 1, IF Len(list) < n THEN Len(list) ELSE n)

LinkCap == 200

\* extractLinks without the cap on the lists.
extractLinksUncapped(anchors, baseUrl) ==
  [internal |-> NewSet(Collected(anchors, baseUrl, TRUE)),
   external |-> NewSet(Collected(anchors, baseUrl, FALSE)),
   canonicalized |-> TRUE]

extractLinks(anchors, baseUrl) ==
  [internal |-> Slice(NewSet(Collected(anchors, baseUrl, TRUE)), LinkCap),
   external |-> Slice(NewSet(Collected(anchors, baseUrl, FALSE)), LinkCap),
   canonicalized |-> TRUE]

\* doc.links = await extractLinks($, undefined, url)
EvalExtractLinks ==
  /\ call.fn = "extractLinks"
  /\ ret = <<>>
  /\ ret' = Append(ret, extractLinks(call.anchors, BaseUrl))
  /\ UNCHANGED <<call, frames, crawl, server>>

\* Pages for extractLinks. Short pages: every list of up to MaxAnchors hrefs
\* out of SomeHrefs. Long pages: n internal links followed by m external
\* ones, with n and m around LinkCap, and then the first links once more.
MaxAnchors == 2
SomeHrefs ==
  {Href("abs", "site", 1, FALSE), Href("abs", "site", 1, TRUE), Href("rel", "", 1, FALSE),
   Href("rel", "", 2, TRUE), Href("abs", "other", 1, FALSE), Href("abs", "other", 1, TRUE),
   Href("mailto", "", 1, FALSE), Href("bad", "", 1, FALSE), Href("empty", "", 0, FALSE)}
RECURSIVE Lists(_, _)
Lists(S, n) ==
  IF n = 0 THEN {<<>>}
  ELSE Lists(S, n - 1) \cup {Append(l, x) : l \in Lists(S, n - 1), x \in S}
LongPage(n, m, externalFirst) ==
  LET int == [k \in 1..n |-> IF k % 2 = 0 THEN Href("rel", "", k, FALSE)
                                          ELSE Href("abs", "site", k, TRUE)]
      ext == [k \in 1..m |-> Href("abs", IF k % 2 = 0 THEN "other" ELSE "third", k, FALSE)]
      once == IF externalFirst THEN ext \o int ELSE int \o ext
  IN once \o SubSeq(once, 1, MaxAnchors)
LinkCalls ==
  {[fn |-> "extractLinks", anchors |-> a] : a \in Lists(SomeHrefs, MaxAnchors)}
  \cup {[fn |-> "extractLinks", anchors |-> LongPage(n, m, e)] :
          n \in {LinkCap, LinkCap + 1}, m \in {0, LinkCap + 1}, e \in BOOLEAN}

\* ---------------------------------------------------------- extractJsonLd
JsonLdCap == 150000

\* A script[type="application/ld+json"] element: whether JSON.parse accepts
\* its text, the length of the text and of JSON.stringify of the parsed value.
Script(valid, textLen, serialLen) ==
  [valid |-> valid, textLen |-> textLen, serialLen |-> serialLen]

\* The loop body with the comparison made strict.
JsonLdPushBelowCap(jsonld, scripts, k) ==
  IF scripts[k].valid /\ scripts[k].serialLen < JsonLdCap
  THEN Append(jsonld, [script |-> k, serialLen |-> scripts[k].serialLen])
  ELSE jsonld

\* The loop body for the k-th script: try { parse; stringify; push when the
\* length is within the cap } catch { }. The parsed value is named by the
\* script it came from.
JsonLdPush(jsonld, scripts, k) ==
  IF scripts[k].valid /\ scripts[k].serialLen <= JsonLdCap
  THEN Append(jsonld, [script |-> k, serialLen |-> scripts[k].serialLen])
  ELSE jsonld

\* One iteration of the loop over the scripts.
JsonLdScript ==
  /\ call.fn = "extractJsonLd"
  /\ ret = <<>>
  /\ frames.k <= Len(call.scripts)
  /\ frames' = [k |-> frames.k + 1,
                jsonld |-> JsonLdPush(frames.jsonld, call.scripts, frames.k)]
  /\ UNCHANGED <<call, ret, crawl, server>>

\* return jsonld
JsonLdReturn ==
  /\ call.fn = "extractJsonLd"
  /\ ret = <<>>
  /\ frames.k > Len(call.scripts)
  /\ ret' = <<frames.jsonld>>
  /\ UNCHANGED <<call, frames, crawl, server>>

MaxScripts == 3
SomeScripts ==
  {Script(TRUE, 20, 10), Script(TRUE, JsonLdCap + 5, JsonLdCap),
   Script(TRUE, JsonLdCap + 1, JsonLdCap + 1), Script(FALSE, 5, 0), Script(FALSE, 0, 0)}
JsonLdCalls ==
  {[fn |-> "extractJsonLd", scripts |-> l] : l \in Lists(SomeScripts, MaxScripts)}

\* ----------------------------------------------------- extractSchemaTypes
\* The parsed JSON-LD values as a table of nodes, parents before children,
\* siblings in their order; parent 0 is the jsonld array itself. An object
\* node carries the string under its '@type' key (Undefined when the key is
\* absent or holds no string); a node with key "@type" is a non-string value
\* under that key.
Node(parent, kind, type, key) ==
  [parent |-> parent, kind |-> kind, type |-> type, key |-> key]

\* The values directly inside node n, in order: Object.values / forEach.
Children(nodes, n) ==
  SubSeqAt([k \in 1..Len(nodes) |-> k], {k \in 1..Len(nodes) : nodes[k].parent = n})

\* types.add(t)
SetAdd(types, t) == IF t \in Range(types) THEN types ELSE Append(types, t)

\* traverse(obj), up to its recursive calls: an object whose '@type' is a
\* truthy string adds it to types.
TypesAfterVisit(types, node) ==
  IF node.kind = "object" /\ Truthy(node.type) THEN SetAdd(types, node.type) ELSE types

\* One call of traverse: the pending calls are a stack; the call's own
\* recursive calls (one per child of an object or array) go on top of it.
Traverse ==
  /\ call.fn = "extractSchemaTypes"
  /\ ret = <<>>
  /\ frames.stack # <<>>
  /\ LET n == Head(frames.stack)
     IN frames' = [stack |-> Children(call.nodes, n) \o Tail(frames.stack),
                   types |-> TypesAfterVisit(frames.types, call.nodes[n]),
                   visited |-> Append(frames.visited, n)]
  /\ UNCHANGED <<call, ret, crawl, server>>

\* return Array.from(types)
SchemaTypesReturn ==
  /\ call.fn = "extractSchemaTypes"
  /\ ret = <<>>
  /\ frames.stack = <<>>
  /\ ret' = <<[k \in 1..Len(frames.types) |-> CHOOSE t \in frames.types[k] : TRUE]>>
  /\ UNCHANGED <<call, frames, crawl, server>>

MaxNodes == 3
NodeShapes ==
  {Node(0, "object", t, "other") : t \in {Undefined, Str(""), Str("A"), Str("B")}}
  \cup {Node(0, "array", Undefined, "other"), Node(0, "array", Undefined, "@type"),
        Node(0, "string", Undefined, "other")}
\* What JSON.parse can return: a forest, with one value per key of an object.
IsParsed(nodes) ==
  \A k \in 1..Len(nodes) :
    /\ nodes[k].parent < k
    /\ k > 1 => nodes[k - 1].parent <= nodes[k].parent
    /\ nodes[k].parent # 0 => nodes[nodes[k].parent].kind \in {"object", "array"}
    /\ nodes[k].key = "@type"
         => /\ nodes[k].parent # 0
            /\ nodes[nodes[k].parent].kind = "object"
            /\ nodes[nodes[k].parent].type = Undefined
            /\ \A m \in 1..Len(nodes) :
                  (nodes[m].parent = nodes[k].parent /\ nodes[m].key = "@type") => m = k
ParsedOfSize(n) ==
  {nodes \in [1..n -> {[s EXCEPT !.parent = q] : s \in NodeShapes, q \in 0..(n - 1)}] :
     IsParsed(nodes)}
SchemaTypesCalls ==
  {[fn |-> "extractSchemaTypes", nodes |-> t] :
     t \in UNION {ParsedOfSize(n) : n \in 0..MaxNodes}}

\* ------------------------------------- the handlers' extraction sequence
\* A fetched page: the markup of its head and of its body, the extractor
\* that throws on it (if any), and whether the response's content-type
\* header is one string, as ContentDocSchema wants it.
Heads == {"<title>T</title>", "<title>U</title>", "<title></title>"}
Bodies == {"<p>text</p>", "<p>more</p>", "<div></div>"}
Extractors ==
  {"metadata", "allText", "headings", "links", "contacts", "evidence", "domStats"}
Pages ==
  [head : Heads, body : Bodies, failing : Extractors \cup {"none"}, typed : BOOLEAN]

\* extractMetadata: $('title').text().trim() || og:title || undefined
TitleOf(head) ==
  IF head = "<title>T</title>" THEN Str("T")
  ELSE IF head = "<title>U</title>" THEN Str("U")
  ELSE Undefined

\* extractMainTextWithReadability / extractLargestTextBlocks: doc.main_text
\* stays unset when neither finds text.
MainTextOf(body) ==
  IF body = "<p>text</p>" THEN Str("text")
  ELSE IF body = "<p>more</p>" THEN Str("more")
  ELSE Undefined

\* sha256(text): the digest, named by the text it is of.
sha256(text) == <<"sha256", text>>

\* The document with the hash taken over the whole markup ($.html()).
FastDocHashOfHtml(url, page, now) ==
  [url |-> url, render_mode |-> CheerioDoc(url).render_mode, fetched_at |-> now,
   title |-> TitleOf(page.head), main_text |-> MainTextOf(page.body),
   all_text_excerpt |-> <<"allText", page.body>>,
   links |-> <<"links", page.body>>,
   html_hash |-> sha256(<<page.head, page.body>>)]

\* The document the Cheerio handler has assembled when it reaches the
\* critical-field check: fetched_at from the clock, html_hash of $('body').html().
FastDoc(url, page, now) ==
  [url |-> url, render_mode |-> CheerioDoc(url).render_mode, fetched_at |-> now,
   title |-> TitleOf(page.head), main_text |-> MainTextOf(page.body),
   all_text_excerpt |-> <<"allText", page.body>>,
   links |-> <<"links", page.body>>,
   html_hash |-> sha256(page.body)]

\* Which way the Cheerio handler goes on a page.
StaticKind(url, page, now) ==
  IF page.failing # "none" THEN "throws"
  ELSE IF needsFallback(FastDoc(url, page, now)) THEN "missing"
  ELSE IF ~page.typed THEN "invalid"
  ELSE "complete"

\* ContentHarvester's Cheerio handler on a page: whether the URL is pushed
\* onto fallbackUrls and what is saved.
HarvesterCheerioHandler(url, page, now) ==
  LET kind == StaticKind(url, page, now)
  IN [kind |-> kind,
      fallback |-> HarvesterCheerioFallback(<<>>, kind, url) # <<>>,
      saved |-> IF HarvesterCheerioDataset(<<>>, kind, url) = <<>>
                THEN <<>> ELSE <<FastDoc(url, page, now)>>]

\* Which way the Playwright handler goes on a rendered page.
RenderKind(page) ==
  IF page.failing # "none" \/ ~page.typed THEN "throws" ELSE "ok"

\* ContentHarvester's Playwright handler on a request.
HarvesterPlaywrightHandler(url, needsJs, page, now) ==
  LET kind == RenderKind(page)
  IN [kind |-> kind,
      fallback |-> FALSE,
      saved |-> IF HarvesterPlaywrightDataset(<<>>, needsJs, kind, url) = <<>>
                THEN <<>>
                ELSE <<[FastDoc(url, page, now)
                          EXCEPT !.render_mode = PlaywrightDoc(url).render_mode]>>]

\* The Cheerio handler runs on call.page Evaluations times, then on call.other.
EvalCheerioHandler ==
  /\ call.fn = "cheerioHandler"
  /\ Len(ret) <= Evaluations
  /\ ret' = Append(ret, HarvesterCheerioHandler(call.url,
                          IF Len(ret) < Evaluations THEN call.page ELSE call.other,
                          frames.now))
  /\ frames' = [now |-> frames.now + 1]
  /\ UNCHANGED <<call, crawl, server>>

EvalPlaywrightHandler ==
  /\ call.fn = "playwrightHandler"
  /\ ret = <<>>
  /\ ret' = <<HarvesterPlaywrightHandler(call.url, call.needsJs, call.page, frames.now)>>
  /\ frames' = [now |-> frames.now + 1]
  /\ UNCHANGED <<call, crawl, server>>

\* HybridCrawler's Playwright handler on a request: the counters after it
\* and what it pushed to the default dataset.
HybridPlaywrightHandler(url, needsJs, kind) ==
  [stats |-> HybridPlaywrightStats(InitStats, needsJs),
   fallback |-> FALSE,
   saved |-> HybridPlaywrightDataset(<<>>, needsJs, kind, url)]

EvalHybridPlaywrightHandler ==
  /\ call.fn = "hybridPlaywrightHandler"
  /\ ret = <<>>
  /\ ret' = <<HybridPlaywrightHandler(call.url, call.needsJs, call.kind)>>
  /\ UNCHANGED <<call, frames, crawl, server>>

HandlerCalls ==
  {[fn |-> "cheerioHandler", url |-> "a", page |-> p,
    other |-> [p EXCEPT !.head = h, !.body = b]] : p \in Pages, h \in Heads, b \in Bodies}
  \cup {[fn |-> "playwrightHandler", url |-> "a", needsJs |-> n, page |-> p] :
          n \in BOOLEAN, p \in Pages}
  \cup {[fn |-> "hybridPlaywrightHandler", url |-> "a", needsJs |-> n, kind |-> k] :
          n \in BOOLEAN, k \in AllRenderKinds \ {"navfail"}}

\* ------------------------------------------- specification of extraction
\* The crawler the functions are evaluated in.
\* ------------------------------------------------- WebsiteCrawler
\* The defaults of the WebsiteCrawler constructor.
DefaultMaxRequestsPerCrawl == 10
DefaultRequestHandlerTimeoutSecs == 30

\* An optional number is undefined or holds one number.
Num(n) == {n}
NumberOf(v) == CHOOSE n \in v : TRUE

\* v || d on an optional number: 0 is falsy and is replaced as well.
LogicalOr(v, d) == IF v = Undefined \/ v = Num(0) THEN d ELSE NumberOf(v)

\* v ?? d on an optional number: only undefined is replaced.
NullishCoalesce(v, d) == IF v = Undefined THEN d ELSE NumberOf(v)

\* The configurations WebsiteCrawler is constructed with.
WebsiteCrawlerCalls ==
  {[fn |-> "WebsiteCrawler",
    config |-> [startUrls |-> s, maxRequestsPerCrawl |-> m,
                requestHandlerTimeoutSecs |-> t]] :
     s \in {<<>>, <<UrlNames[1]>>},
     m \in {Undefined, Num(0), Num(5)},
     t \in {Undefined, Num(60)}}

\* new WebsiteCrawler(config): this.config with the defaults filled in, and
\* the PlaywrightCrawler built from this.config.
NewWebsiteCrawler ==
  /\ call.fn = "WebsiteCrawler"
  /\ ~frames.constructed
  /\ LET cfg == [maxRequestsPerCrawl |->
                   NullishCoalesce(call.config.maxRequestsPerCrawl,
                                   DefaultMaxRequestsPerCrawl),
                 requestHandlerTimeoutSecs |->
                   NullishCoalesce(call.config.requestHandlerTimeoutSecs,
                                   DefaultRequestHandlerTimeoutSecs),
                 startUrls |-> call.config.startUrls]
     IN frames' = [constructed |-> TRUE,
                   config |-> cfg,
                   crawler |-> [maxRequestsPerCrawl |-> cfg.maxRequestsPerCrawl,
                                requestHandlerTimeoutSecs |-> cfg.requestHandlerTimeoutSecs]]
  /\ UNCHANGED <<call, ret, crawl, server>>

\* getCrawler(): return this.crawler
GetCrawler ==
  /\ call.fn = "WebsiteCrawler"
  /\ frames.constructed
  /\ Len(ret) < Evaluations
  /\ ret' = Append(ret, frames.crawler)
  /\ UNCHANGED <<call, frames, crawl, server>>

HostConfig ==
  [variant |-> "harvester", startUrls |-> <<"a">>, maxRequestsPerCrawl |-> 1,
   httpConcurrency |-> 1, jsConcurrency |-> 1,
   staticKinds |-> HarvesterStaticKinds, renderKinds |-> AllRenderKinds]

\* =================================================================
\* The harvest server: POST /harvest requests of one server process, each
\* with its own ContentHarvester, all on the default request queue and
\* the dataset 'content-harvest', which live as long as the process.
\* A crawler task (fetch, handler, mark handled) is one step here.
\* =================================================================
\* The limits of HarvestRequestSchema.
MaxUrlsPerRequest == 50
MaxRequestsLimit == 100
MaxHttpConcurrency == 20
MaxJsConcurrency == 10
\* The default maxRequestsPerCrawl of ContentHarvester.
HarvesterDefaultMaxRequests == 100

\* The URLs clients ask for: two pages of which one is under the other's
\* path, and a page with a capital letter in its path.
ServerUrls == {"a", "a/x", "B"}
UrlTails == {"", "/x"}
\* String.prototype.toLowerCase on these URLs.
ToLowerCase(url) == IF url = "B" THEN "b" ELSE url
\* String.prototype.startsWith
StartsWith(str, prefix) == \E tail \in UrlTails : str = prefix \o tail
\* z.string().url()
IsUrl(str) == str \in ServerUrls

\* z.number().int().positive().max(limit).optional()
OptionalLimitOk(v, limit) == v = Undefined \/ (NumberOf(v) > 0 /\ NumberOf(v) <= limit)

\* HarvestRequestSchema.parse(body) does not throw.
HarvestRequestSchemaOk(body) ==
  /\ Len(body.urls) >= 1
  /\ Len(body.urls) <= MaxUrlsPerRequest
  /\ \A k \in 1..Len(body.urls) : IsUrl(body.urls[k])
  /\ OptionalLimitOk(body.maxRequestsPerCrawl, MaxRequestsLimit)
  /\ OptionalLimitOk(body.httpConcurrency, MaxHttpConcurrency)
  /\ OptionalLimitOk(body.jsConcurrency, MaxJsConcurrency)

\* A request body: text that is JSON or not, and the value it parses to.
Body(json, urls, maxRequests, httpConc, jsConc) ==
  [json |-> json, urls |-> urls, maxRequestsPerCrawl |-> maxRequests,
   httpConcurrency |-> httpConc, jsConcurrency |-> jsConc]

ValidBodies ==
  {Body(TRUE, u, Undefined, Undefined, Undefined) :
     u \in {<<"a">>, <<"a/x">>, <<"a", "B">>}}
  \cup {Body(TRUE, <<"a">>, Num(1), Undefined, Undefined)}
InvalidBodies ==
  {Body(FALSE, <<>>, Undefined, Undefined, Undefined),
   Body(TRUE, <<>>, Undefined, Undefined, Undefined),
   Body(TRUE, <<"not a url">>, Undefined, Undefined, Undefined),
   Body(TRUE, [k \in 1..(MaxUrlsPerRequest + 1) |-> "a"], Undefined, Undefined, Undefined),
   Body(TRUE, <<"a">>, Num(0), Undefined, Undefined),
   Body(TRUE, <<"a">>, Num(MaxRequestsLimit + 1), Undefined, Undefined),
   Body(TRUE, <<"a">>, Undefined, Num(MaxHttpConcurrency + 1), Undefined),
   Body(TRUE, <<"a">>, Undefined, Undefined, Num(MaxJsConcurrency + 1))}
HarvestBodies == ValidBodies \cup InvalidBodies

\* sendJSON(res, statusCode, { success: false, error })
ErrorResponse(statusCode) == [NoResponse EXCEPT !.status = statusCode]

\* The catch block of handleHarvest: 400 for a ZodError, else 500.
HarvestErrorStatus(isZodError) == IF isZodError THEN 400 ELSE 500

\* The requests whose handleHarvest has begun and not yet answered.
InProcess == {r \in 1..MaxRequests : server.requests[r].pc \notin {"none", "responded"}}

\* handleHarvest up to harvester.run(): parseBody rejects text that is not
\* JSON with a plain Error, HarvestRequestSchema.parse throws a ZodError,
\* else a ContentHarvester is constructed and its run() begins.
HandleHarvest(r) ==
  /\ server.requests[r].pc = "none"
  /\ r > 1 => server.requests[r - 1].pc # "none"
  /\ \E body \in HarvestBodies :
       server' = [server EXCEPT
         !.concurrent = @ \/ InProcess # {},
         !.requests[r] =
         IF ~body.json
         THEN [@ EXCEPT !.pc = "responded",
                        !.body = "not JSON",
                        !.response = ErrorResponse(HarvestErrorStatus(FALSE))]
         ELSE IF ~HarvestRequestSchemaOk(body)
         THEN [@ EXCEPT !.pc = "responded",
                        !.body = "schema violation",
                        !.response = ErrorResponse(HarvestErrorStatus(TRUE))]
         ELSE [@ EXCEPT !.pc = "seed",
                        !.body = "valid",
                        !.urls = body.urls,
                        !.maxRequestsPerCrawl =
                           NullishCoalesce(body.maxRequestsPerCrawl,
                                           HarvesterDefaultMaxRequests)]]
  /\ UNCHANGED <<extraction, crawl>>

\* run() of request r: for (const url of startUrls) await addRequest({ url })
ServerAddSeed(r) ==
  /\ server.requests[r].pc = "seed"
  /\ server.requests[r].i <= Len(server.requests[r].urls)
  /\ requestQueue' = AddRequest(requestQueue,
                                SeedRequest(server.requests[r].urls[server.requests[r].i]))
  /\ server' = [server EXCEPT !.requests[r].i = @ + 1]
  /\ UNCHANGED <<extraction, config, pc, i, cheerioHandled, playwrightHandled, stats,
                 fallbackUrls, dataset, defaultDataset, fastLog, jsLog>>

\* run() of request r: cheerioCrawler.run() starts with the handled count
\* of the queue.
ServerStartCheerio(r) ==
  /\ server.requests[r].pc = "seed"
  /\ server.requests[r].i > Len(server.requests[r].urls)
  /\ server' = [server EXCEPT !.requests[r].pc = "fast",
                              !.requests[r].handled = HandledCount(requestQueue)]
  /\ UNCHANGED <<extraction, crawl>>

\* The handler invocation of a task, as the claims refer to it.
Outcome(r, crawler, req, kind) ==
  [run |-> r, crawler |-> crawler, url |-> req.url, needsJs |-> req.needsJs,
   kind |-> kind]

\* producedBy after a handler of request r has left the dataset as ds.
ProducedBy(r, ds) ==
  IF Len(ds) > Len(dataset) THEN Append(server.producedBy, r) ELSE server.producedBy

\* A task of the Cheerio crawler of request r: the oldest pending request
\* of the queue, whoever added it, goes through the Cheerio handler.
ServerFastTask(r) ==
  /\ server.requests[r].pc = "fast"
  /\ server.requests[r].handled < server.requests[r].maxRequestsPerCrawl
  /\ Pending(requestQueue) # {}
  /\ LET k == NextPending(requestQueue)
         req == requestQueue[k]
     IN \E kind \in {"complete", "missing"} :
          /\ dataset' = HarvesterCheerioDataset(dataset, kind, req.url)
          /\ requestQueue' = SetStatus(requestQueue, k, "handled")
          /\ server' = [server EXCEPT
                          !.requests[r].handled = @ + 1,
                          !.requests[r].fallbackUrls =
                             HarvesterCheerioFallback(@, kind, req.url),
                          !.producedBy = ProducedBy(r, dataset'),
                          !.outcomes = @ \cup {Outcome(r, "cheerio", req, kind)}]
  /\ UNCHANGED <<extraction, config, pc, i, cheerioHandled, playwrightHandled, stats,
                 fallbackUrls, defaultDataset, fastLog, jsLog>>

\* `await this.cheerioCrawler.run()` of request r resolves.
ServerCheerioDone(r) ==
  /\ server.requests[r].pc = "fast"
  /\ \/ Pending(requestQueue) = {}
     \/ server.requests[r].handled >= server.requests[r].maxRequestsPerCrawl
  /\ server' = [server EXCEPT !.requests[r].pc = "barrier", !.requests[r].i = 1]
  /\ UNCHANGED <<extraction, crawl>>

\* run() of request r: the loop that re-enqueues its fallback URLs.
ServerReEnqueue(r) ==
  /\ server.requests[r].pc = "barrier"
  /\ server.requests[r].i <= Len(server.requests[r].fallbackUrls)
  /\ requestQueue' =
       AddRequest(requestQueue,
                  FallbackRequest(server.requests[r].fallbackUrls[server.requests[r].i]))
  /\ server' = [server EXCEPT !.requests[r].i = @ + 1]
  /\ UNCHANGED <<extraction, config, pc, i, cheerioHandled, playwrightHandled, stats,
                 fallbackUrls, dataset, defaultDataset, fastLog, jsLog>>

\* run() of request r: playwrightCrawler.run() starts if there is a
\* fallback URL, else run() returns.
ServerStartPlaywright(r) ==
  /\ server.requests[r].pc = "barrier"
  /\ server.requests[r].i > Len(server.requests[r].fallbackUrls)
  /\ server' = IF Len(server.requests[r].fallbackUrls) > 0
               THEN [server EXCEPT !.requests[r].pc = "render",
                                   !.requests[r].handled = HandledCount(requestQueue)]
               ELSE [server EXCEPT !.requests[r].pc = "ran"]
  /\ UNCHANGED <<extraction, crawl>>

\* A task of the Playwright crawler of request r, on a site whose pages
\* render.
ServerRenderTask(r) ==
  /\ server.requests[r].pc = "render"
  /\ server.requests[r].handled < server.requests[r].maxRequestsPerCrawl
  /\ Pending(requestQueue) # {}
  /\ LET k == NextPending(requestQueue)
         req == requestQueue[k]
     IN \E kind \in {"ok"} :
          /\ dataset' = HarvesterPlaywrightDataset(dataset, req.needsJs, kind, req.url)
          /\ requestQueue' = SetStatus(requestQueue, k, "handled")
          /\ server' = [server EXCEPT
                          !.requests[r].handled = @ + 1,
                          !.producedBy = ProducedBy(r, dataset'),
                          !.outcomes = @ \cup
                             {Outcome(r, "playwright", req,
                                      IF req.needsJs THEN kind ELSE "skip")}]
  /\ UNCHANGED <<extraction, config, pc, i, cheerioHandled, playwrightHandled, stats,
                 fallbackUrls, defaultDataset, fastLog, jsLog>>

\* `await this.playwrightCrawler.run()` of request r resolves.
ServerPlaywrightDone(r) ==
  /\ server.requests[r].pc = "render"
  /\ \/ Pending(requestQueue) = {}
     \/ server.requests[r].handled >= server.requests[r].maxRequestsPerCrawl
  /\ server' = [server EXCEPT !.requests[r].pc = "ran"]
  /\ UNCHANGED <<extraction, crawl>>

\* The items of the dataset the response filter lets through: the URL, in
\* lower case, is a requested URL in lower case or starts with one.
FilteredPositions(items, urls) ==
  LET requestedUrls == {ToLowerCase(urls[k]) : k \in 1..Len(urls)}
  IN {k \in 1..Len(items) :
        \/ ToLowerCase(items[k].url) \in requestedUrls
        \/ \E reqUrl \in requestedUrls : StartsWith(ToLowerCase(items[k].url), reqUrl)}

\* filteredItems.filter(item => item.render_mode === mode).length
RenderModeCount(items, mode) ==
  Cardinality({k \in 1..Len(items) : items[k].render_mode = mode})

\* A count over everything the dataset holds.
HarvestResponseOfAll(items, urls) ==
  LET positions == FilteredPositions(items, urls)
      filteredItems == SubSeqAt(items, positions)
  IN [status |-> 200, success |-> TRUE, data |-> filteredItems,
      positions |-> positions,
      stats |-> [total |-> Len(filteredItems),
                 http |-> RenderModeCount(items, "http"),
                 js |-> RenderModeCount(items, "js")]]

\* The response body of a successful harvest; positions are the places the
\* items of data have in the dataset.
HarvestResponse(items, urls) ==
  LET positions == FilteredPositions(items, urls)
      filteredItems == SubSeqAt(items, positions)
  IN [status |-> 200, success |-> TRUE, data |-> filteredItems,
      positions |-> positions,
      stats |-> [total |-> Len(filteredItems),
                 http |-> RenderModeCount(filteredItems, "http"),
                 js |-> RenderModeCount(filteredItems, "js")]]

\* handleHarvest after run(): read the dataset, filter, count, send. The
\* crawlers of the request are of no use from here on.
Respond(r) ==
  /\ server.requests[r].pc = "ran"
  /\ server' = [server EXCEPT
                  !.requests[r].pc = "responded",
                  !.requests[r].i = 1,
                  !.requests[r].handled = 0,
                  !.requests[r].response =
                     HarvestResponse(dataset, server.requests[r].urls)]
  /\ UNCHANGED <<extraction, crawl>>

InitServer ==
  /\ Constructed(HostConfig)
  /\ call = NoCall
  /\ ret = <<>>
  /\ frames = <<>>
  /\ server = ServerIdle

NextServer ==
  \E r \in 1..MaxRequests :
    \/ HandleHarvest(r)
    \/ ServerAddSeed(r)
    \/ ServerStartCheerio(r)
    \/ ServerFastTask(r)
    \/ ServerCheerioDone(r)
    \/ ServerReEnqueue(r)
    \/ ServerStartPlaywright(r)
    \/ ServerRenderTask(r)
    \/ ServerPlaywrightDone(r)
    \/ Respond(r)

SpecServer == InitServer /\ [][NextServer]_vars

\* The records a dataset written by ContentHarvester can hold.
MaxItems == 3
StoredDocs == {CheerioDoc(u) : u \in ServerUrls} \cup {PlaywrightDoc(u) : u \in ServerUrls}
ResponseCalls ==
  {[fn |-> "harvestResponse", items |-> items, urls |-> urls] :
     items \in Lists(StoredDocs, MaxItems),
     urls \in {<<"a">>, <<"a/x">>, <<"a", "B">>}}

\* The response handleHarvest builds from the dataset after run().
EvalHarvestResponse ==
  /\ call.fn = "harvestResponse"
  /\ Len(ret) < Evaluations
  /\ ret' = Append(ret, HarvestResponse(call.items, call.urls))
  /\ UNCHANGED <<call, frames, crawl, server>>

ExtractCalls ==
  ProbeCalls \cup DocCalls \cup LinkCalls \cup JsonLdCalls \cup SchemaTypesCalls
    \cup HandlerCalls \cup WebsiteCrawlerCalls \cup ResponseCalls

\* The local variables of the function at its entry.
EntryFrames(c) ==
  IF c.fn = "extractJsonLd" THEN [k |-> 1, jsonld |-> <<>>]
  ELSE IF c.fn = "extractSchemaTypes"
       THEN [stack |-> Children(c.nodes, 0), types |-> <<>>, visited |-> <<>>]
  ELSE IF c.fn \in {"cheerioHandler", "playwrightHandler"} THEN [now |-> 1]
  ELSE IF c.fn = "WebsiteCrawler" THEN [constructed |-> FALSE]
  ELSE <<>>

InitExtract ==
  /\ Constructed(HostConfig)
  /\ server = ServerIdle
  /\ call \in ExtractCalls
  /\ ret = <<>>
  /\ frames = EntryFrames(call)

NextExtract ==
  \/ EvalHasCriticalFields
  \/ EvalNeedsFallback
  \/ EvalExtractLinks
  \/ JsonLdScript
  \/ JsonLdReturn
  \/ Traverse
  \/ SchemaTypesReturn
  \/ EvalCheerioHandler
  \/ EvalPlaywrightHandler
  \/ EvalHybridPlaywrightHandler
  \/ NewWebsiteCrawler
  \/ GetCrawler
  \/ EvalHarvestResponse

SpecExtract == InitExtract /\ [][NextExtract]_vars

TypeOK ==
  /\ variant \in {"hybrid", "harvester"}
  /\ pc \in {"seed", "fast", "barrier", "render", "done"}
  /\ cheerioHandled \in Nat /\ playwrightHandled \in Nat

\* =================================================================
\* Properties
\* =================================================================
DatasetUrls(ds) == {ds[k].url : k \in 1..Len(ds)}
DocsOf(ds, url, mode) == {k \in 1..Len(ds) : ds[k].url = url /\ ds[k].render_mode = mode}
\* URLs whose fast-path handler finished on a page of one of the kinds.
FastUrls(kinds) == {u \in DOMAIN fastLog : \E k \in 1..Len(fastLog[u]) : fastLog[u][k] \in kinds}
\* URLs a render-path handler handled with needsJs = true.
RenderedUrls == {u \in DOMAIN jsLog : \E k \in 1..Len(jsLog[u]) : jsLog[u][k].needsJs}
\* URLs that are in the queue with the needsJs marker.
NeedsJsUrls == {requestQueue[k].url : k \in {m \in 1..Len(requestQueue) : requestQueue[m].needsJs}}
\* Every request the Playwright crawler took was navigated to successfully.
NoNavigationFailed == HandledCount(requestQueue) = cheerioHandled + LogCount(jsLog)

\* C1: in HybridCrawler, when the fast pass has finished and no fallback
\* request has been enqueued yet, http_ok + fallback_enqueued = seen, whatever
\* the outcome of each handler invocation (accept, defer, caught exception).
C1_BarrierBalance ==
  (variant = "hybrid" /\ pc = "barrier" /\ i = 1)
    => stats.http_ok + stats.fallback_enqueued = stats.seen

\* C2: as long as a fast-path handler of the run is still running or the
\* fast pass has not finished, no request with the needsJs marker is in the
\* queue and no render-path handler has started; every fast-path invocation
\* that started has then been recorded.
C2_TwoPhaseBarrier ==
  (\/ NeedsJsUrls # {}
   \/ Running(requestQueue, "playwright") # {}
   \/ playwrightHandled > 0
   \/ LogCount(jsLog) > 0)
    => /\ pc \in {"barrier", "render", "done"}
       /\ Running(requestQueue, "cheerio") = {}
       /\ variant = "hybrid" => stats.seen = LogCount(fastLog)
       /\ LogCount(fastLog) <= cheerioHandled

C2_Witness ==
  /\ pc = "render"
  /\ httpConcurrency >= 2
  /\ LogCount(fastLog) >= 2
  /\ \E k \in Running(requestQueue, "playwright") : requestQueue[k].needsJs

\* C3: in HybridCrawler, once run() is done every URL whose fast-path
\* handler found critical fields missing has been re-enqueued with needsJs
\* and handled by the render-path handler (navigation failures set aside).
C3_HybridDeferredRendered ==
  (variant = "hybrid" /\ pc = "done" /\ NoNavigationFailed)
    => /\ FastUrls({"missing"}) \subseteq NeedsJsUrls
       /\ FastUrls({"missing"}) \subseteq RenderedUrls

\* C4: in ContentHarvester, once run() is done every URL the fast path
\* deferred has been handled by the render-path handler with needsJs, for
\* every seed list and budget (navigation failures set aside).
C4_HarvesterDeferredRendered ==
  (variant = "harvester" /\ pc = "done" /\ NoNavigationFailed)
    => FastUrls({"missing"}) \subseteq RenderedUrls

\* C5: in ContentHarvester, every needsJs request the render-path handler
\* processed has exactly one persisted document with render_mode 'js',
\* also when an extraction step failed.
C5_RenderAlwaysPersists ==
  variant = "harvester"
    => \A u \in RenderedUrls : Cardinality(DocsOf(dataset, u, "js")) = 1

\* C6: after HybridCrawler.run(), js_rate is the integer nearest to
\* js_processed / (http_ok + js_processed) * 100 (halves up) when the
\* denominator is positive and 0 otherwise, and lies between 0 and 100.
C6_JsRate ==
  (variant = "hybrid" /\ pc = "done")
    => LET d == stats.http_ok + stats.js_processed
           r == stats.js_rate
       IN /\ r \in 0..100
          /\ IF d > 0
             THEN /\ 2 * d * r <= 200 * stats.js_processed + d
                  /\ 200 * stats.js_processed + d < 2 * d * (r + 1)
             ELSE r = 0

C6_Witness ==
  /\ variant = "hybrid"
  /\ pc = "done"
  /\ stats.http_ok = 5
  /\ stats.js_processed = 6
  /\ stats.js_rate = 55

\* C7: a record is appended to the content-harvest dataset with render_mode
\* 'http' exactly by a fast-path handler and with 'js' exactly by a
\* render-path handler, and with no other value.
C7_RenderModeMatchesPipeline ==
  [][Len(dataset') > Len(dataset) =>
       LET doc == dataset'[Len(dataset')]
       IN /\ doc.render_mode \in {"http", "js"}
          /\ doc.render_mode = "http" <=> fastLog' # fastLog
          /\ doc.render_mode = "js" <=> jsLog' # jsLog]_vars

C7_Witness ==
  /\ variant = "harvester"
  /\ \E k \in 1..Len(dataset) : dataset[k].render_mode = "http"
  /\ \E k \in 1..Len(dataset) : dataset[k].render_mode = "js"

\* C8: in a ContentHarvester run at most one document is persisted per URL:
\* a URL the fast path deferred has no 'http' record and a URL with an
\* 'http' record is not on the fallback list.
C8_OneDocPerUrl ==
  variant = "harvester"
    => /\ \A u \in DatasetUrls(dataset) :
            Cardinality({k \in 1..Len(dataset) : dataset[k].url = u}) = 1
       /\ \A u \in FastUrls({"missing"}) : DocsOf(dataset, u, "http") = {}
       /\ \A u \in Range(fallbackUrls) : DocsOf(dataset, u, "http") = {}

C8_Witness ==
  /\ variant = "harvester"
  /\ pc = "done"
  /\ Len(dataset) = 2
  /\ \E u \in FastUrls({"missing"}) : DocsOf(dataset, u, "js") # {}
  /\ \E u \in FastUrls({"complete"}) : DocsOf(dataset, u, "http") # {}

\* C9: every URL a fast-path handler accepted has a record persisted by the
\* fast path, in HybridCrawler (default dataset) and in ContentHarvester
\* (an 'http' record in the content-harvest dataset).
C9_AcceptPersists ==
  \A u \in FastUrls({"complete"}) :
    IF variant = "hybrid"
    THEN u \in DatasetUrls(defaultDataset)
    ELSE DocsOf(dataset, u, "http") # {}

\* C10: a URL whose fast-path extraction raised an exception is on the
\* fallback list and, once the fallback list has been re-enqueued, in the
\* queue with the needsJs marker, in both crawlers.
C10_ExceptionIsDefer ==
  \A u \in FastUrls({"throws"}) :
    /\ u \in Range(fallbackUrls)
    /\ pc \in {"render", "done"} => u \in NeedsJsUrls

\* Requests whose static fetch failed for good during the fast pass: handled
\* by the Cheerio crawler without a handler invocation.
FetchFailedUrls ==
  {requestQueue[k].url : k \in {m \in 1..Len(requestQueue) :
      /\ ~requestQueue[m].needsJs
      /\ requestQueue[m].status = "handled"
      /\ fastLog[requestQueue[m].url] = <<>>}}

\* C11: a seed URL whose static fetch fails on the fast path is put on the
\* fallback list and, once the list has been re-enqueued, is in the queue
\* with the needsJs marker.
C11_FetchFailureIsDefer ==
  /\ pc \in {"fast", "barrier"} => FetchFailedUrls \subseteq Range(fallbackUrls)
  /\ (pc = "barrier" /\ i > Len(fallbackUrls)) => FetchFailedUrls \subseteq NeedsJsUrls

\* C12: in ContentHarvester's fast path a document that fails schema
\* validation is not persisted, the handler still returns normally (the
\* request is handled once, never retried), and the fast pass goes on: it
\* ends with requests still pending only when its budget is used up.
C12_InvalidNotPersisted ==
  variant = "harvester"
    => /\ \A u \in FastUrls({"invalid"}) :
            /\ DocsOf(dataset, u, "http") = {}
            /\ Len(fastLog[u]) = 1
            /\ \A k \in 1..Len(requestQueue) :
                 (requestQueue[k].url = u /\ ~requestQueue[k].needsJs)
                   => requestQueue[k].status = "handled"
       /\ (pc = "barrier" /\ cheerioHandled < maxRequestsPerCrawl)
            => \A k \in 1..Len(requestQueue) :
                 ~requestQueue[k].needsJs => requestQueue[k].status = "handled"

C12_Witness ==
  /\ variant = "harvester"
  /\ pc = "barrier"
  /\ FastUrls({"invalid"}) # {}
  /\ FastUrls({"complete"}) # {}
  /\ Len(dataset) = 1

\* C14: a render-path handler that gets a request without needsJs returns
\* with every counter as it was, nothing pushed to a dataset and nothing
\* put on the fallback list, whatever the page is.
C14_NoNeedsJsNoEffect ==
  (/\ call.fn \in {"playwrightHandler", "hybridPlaywrightHandler"}
   /\ ~call.needsJs
   /\ ret # <<>>)
    => /\ ret[1].saved = <<>>
       /\ ~ret[1].fallback
       /\ call.fn = "hybridPlaywrightHandler" => ret[1].stats = InitStats
       /\ stats = InitStats /\ dataset = <<>> /\ defaultDataset = <<>> /\ fallbackUrls = <<>>

\* HybridCrawler's handler has returned on a page it could have extracted.
C14_Witness ==
  /\ call.fn = "hybridPlaywrightHandler"
  /\ ~call.needsJs
  /\ call.kind = "ok"
  /\ ret # <<>>

\* The render-path handler invocations for url that carried needsJs.
RenderRuns(url) == {k \in 1..Len(jsLog[url]) : jsLog[url][k].needsJs}
\* The queue has every fallback URL it is going to get.
ReEnqueueDone == pc \in {"render", "done"} \/ (pc = "barrier" /\ i > Len(fallbackUrls))

Blank(v) == v = Undefined \/ v = Str("")

\* C13: ParseUtils.hasCriticalFields returns true exactly when serviceTitle,
\* provider and priceText are all present and non-empty; ContentHarvester
\* defers exactly when title or main_text is absent or empty; every
\* evaluation on one input returns the same decision, and the crawler's
\* counters, fallback list and datasets are as they were.
C13_JudgePure ==
  /\ call.fn = "hasCriticalFields"
       => \A k \in 1..Len(ret) : ret[k] = (\A f \in CRITICAL_FIELDS : ~Blank(call.data[f]))
  /\ call.fn = "needsFallback"
       => \A k \in 1..Len(ret) : ret[k] = (Blank(call.data.title) \/ Blank(call.data.main_text))
  /\ call.fn \in {"hasCriticalFields", "needsFallback"}
       => /\ \A k, m \in 1..Len(ret) : ret[k] = ret[m]
          /\ stats = InitStats
          /\ fallbackUrls = <<>>
          /\ dataset = <<>>
          /\ defaultDataset = <<>>

C13_Witness ==
  /\ call.fn = "hasCriticalFields"
  /\ Len(ret) = Evaluations
  /\ ~ret[1]
  /\ call.data.serviceTitle = Str("x")
  /\ call.data.provider = Str("x")
  /\ call.data.priceText = Str("")

NoDuplicates(list) == Cardinality(Range(list)) = Len(list)

\* C16: the internal and the external list extractLinks returns for
\* doc.links have at most 200 entries each, no entry twice, and no entry in
\* common, whatever anchors the page has and in whatever order.
C16_LinkLists ==
  call.fn = "extractLinks"
    => \A k \in 1..Len(ret) :
         /\ Len(ret[k].internal) <= LinkCap
         /\ Len(ret[k].external) <= LinkCap
         /\ NoDuplicates(ret[k].internal)
         /\ NoDuplicates(ret[k].external)
         /\ Range(ret[k].internal) \cap Range(ret[k].external) = {}

\* A page with more than 200 distinct internal and more than 200 distinct
\* external links, some of them repeated.
C16_Witness ==
  /\ call.fn = "extractLinks"
  /\ Len(call.anchors) > 2 * LinkCap + 2
  /\ ret # <<>>
  /\ Len(ret[1].internal) = LinkCap
  /\ Len(ret[1].external) = LinkCap

\* The scripts that parse and whose serialised length is within the cap.
Qualifying(scripts) ==
  {k \in 1..Len(scripts) : scripts[k].valid /\ scripts[k].serialLen <= JsonLdCap}

\* C17: the list extractJsonLd returns holds exactly the scripts that parse
\* and serialise to at most 150000 characters, each once, in document order;
\* a script that does not parse only lacks from the list.
C17_JsonLdExact ==
  (call.fn = "extractJsonLd" /\ ret # <<>>)
    => LET jsonld == ret[1]
       IN /\ {jsonld[j].script : j \in 1..Len(jsonld)} = Qualifying(call.scripts)
          /\ \A j, m \in 1..Len(jsonld) : j < m => jsonld[j].script < jsonld[m].script

\* An unparseable script first, then one exactly at the cap and one above it.
C17_Witness ==
  /\ call.fn = "extractJsonLd"
  /\ ret # <<>>
  /\ Len(call.scripts) = 3
  /\ ~call.scripts[1].valid
  /\ call.scripts[2].serialLen = JsonLdCap
  /\ call.scripts[3].serialLen > JsonLdCap
  /\ Len(ret[1]) = 1
  /\ ret[1][1].script = 2

\* What is saved, with the time of the fetch left out.
Timeless(saved) == [k \in 1..Len(saved) |-> [saved[k] EXCEPT !.fetched_at = 0]]

C20_ExtractorFailureIsolated ==
  (/\ call.fn \in {"cheerioHandler", "playwrightHandler"}
   /\ call.fn = "playwrightHandler" => call.needsJs
   /\ ret # <<>>
   /\ call.page.failing \in Extractors \ {"metadata"}
   /\ Truthy(TitleOf(call.page.head))
   /\ Truthy(MainTextOf(call.page.body))
   /\ call.page.typed)
    => /\ ret[1].saved # <<>>
       /\ ~ret[1].fallback

\* The strings under an '@type' key anywhere in the parsed values.
TypeStrings(nodes) ==
  {CHOOSE t \in nodes[k].type : TRUE :
     k \in {m \in 1..Len(nodes) : nodes[m].kind = "object" /\ nodes[m].type # Undefined}}

\* C18: extractSchemaTypes visits every node of the parsed values once and
\* returns, each once, exactly the strings that occur as an '@type' value
\* at any depth.
C18_SchemaTypes ==
  /\ call.fn = "extractSchemaTypes" => NoDuplicates(frames.visited)
  /\ (call.fn = "extractSchemaTypes" /\ ret # <<>>)
       => /\ Range(frames.visited) = 1..Len(call.nodes)
          /\ NoDuplicates(ret[1])
          /\ Range(ret[1]) = TypeStrings(call.nodes)

\* =================================================================
\* Budget, counters and termination of a run
\* =================================================================
\* C23: in every state of a run the number of requests the fast-path and the
\* render-path handlers have handled, taken together, is at most
\* maxRequestsPerCrawl.
C23_BudgetRespected ==
  LogCount(fastLog) + LogCount(jsLog) <= maxRequestsPerCrawl

\* C26: the counters of HybridCrawler belong to phases: seen, http_ok and
\* fallback_enqueued do not change once the fast pass has finished,
\* js_processed does not change before the render pass has started, and
\* js_rate is 0 until both passes have completed and is written by the one
\* step that ends run(), never again afterwards.
C26_PhaseExclusive ==
  [][variant = "hybrid" =>
       /\ pc \in {"barrier", "render", "done"}
            => /\ stats'.seen = stats.seen
               /\ stats'.http_ok = stats.http_ok
               /\ stats'.fallback_enqueued = stats.fallback_enqueued
       /\ pc \in {"seed", "fast", "barrier"} => stats'.js_processed = stats.js_processed
       /\ pc' # "done" => stats'.js_rate = 0
       /\ stats'.js_rate # stats.js_rate
            => /\ pc = "render" /\ pc' = "done"
               /\ Running(requestQueue, "cheerio") = {}
               /\ Running(requestQueue, "playwright") = {}
       /\ pc = "done" => stats' = stats]_vars

\* A run has ended in which every counter was written, js_rate included.
C26_Witness ==
  /\ variant = "hybrid"
  /\ pc = "done"
  /\ stats.http_ok > 0
  /\ stats.fallback_enqueued > 0
  /\ stats.js_processed > 0
  /\ stats.js_rate > 0

\* The smaller of two numbers.
Min(a, b) == IF a <= b THEN a ELSE b

HandlersAddNoRequest ==
  pc \in {"fast", "render"} => Len(requestQueue') = Len(requestQueue)

\* C24: when handlers return and the queue delivers, run() of HybridCrawler
\* and of ContentHarvester eventually completes; while a crawler runs no
\* handler adds a request to the queue, and a completed HybridCrawler run has
\* written js_rate from the final counters.
C24_Terminates ==
  /\ <>(pc = "done")
  /\ [][HandlersAddNoRequest]_vars
  /\ []((pc = "done" /\ variant = "hybrid")
           => stats.js_rate = JsRate(stats.js_processed, stats.http_ok))

\* A run has completed after both passes handled requests and at least one
\* request is left pending at the budget.
C24_Witness ==
  /\ pc = "done"
  /\ LogCount(fastLog) > 0
  /\ LogCount(jsLog) > 0
  /\ Pending(requestQueue) # {}

\* C25: a WebsiteCrawler is constructed for every configuration; with only
\* startUrls given its crawler has maxRequestsPerCrawl 10 and
\* requestHandlerTimeoutSecs 30, a given maxRequestsPerCrawl is used as it
\* is, and every getCrawler() returns the crawler built with those values.
C25_WebsiteCrawlerDefaults ==
  (call.fn = "WebsiteCrawler" /\ frames.constructed) =>
    /\ (call.config.maxRequestsPerCrawl = Undefined
          /\ call.config.requestHandlerTimeoutSecs = Undefined)
         => /\ frames.crawler.maxRequestsPerCrawl = 10
            /\ frames.crawler.requestHandlerTimeoutSecs = 30
    /\ call.config.maxRequestsPerCrawl # Undefined
         => call.config.maxRequestsPerCrawl = {frames.crawler.maxRequestsPerCrawl}
    /\ frames.config.startUrls = call.config.startUrls
    /\ \A k \in 1..Len(ret) : ret[k] = frames.crawler

\* getCrawler() has returned for a configuration with only startUrls.
C25_Witness ==
  /\ call.fn = "WebsiteCrawler"
  /\ call.config.maxRequestsPerCrawl = Undefined
  /\ call.config.requestHandlerTimeoutSecs = Undefined
  /\ call.config.startUrls # <<>>
  /\ frames.constructed
  /\ ret # <<>>

\* =================================================================
\* The harvest server
\* =================================================================
\* The requests that have been answered.
Responded == {r \in 1..MaxRequests : server.requests[r].pc = "responded"}

\* C21: every POST /harvest whose body is not JSON or violates the request
\* schema is answered with status 400 and success = false, and no harvester
\* run is started for it.
C21_InvalidBodyIs400 ==
  \A r \in Responded :
    server.requests[r].body \in {"not JSON", "schema violation"}
      => /\ server.requests[r].response.status = 400
         /\ ~server.requests[r].response.success
         /\ server.requests[r].urls = <<>>

\* C29: every item of the data of a successful response was pushed by the
\* run of that request and has one of the requested URLs.
C29_ResponseFromOwnRun ==
  \A r \in Responded :
    server.requests[r].response.success
      => \A k \in server.requests[r].response.positions :
           /\ server.producedBy[k] = r
           /\ dataset[k].url \in Range(server.requests[r].urls)

\* C30: when requests are processed concurrently, no render-path handler
\* takes a request without the needsJs marker, and once the run of a request
\* has returned each of its URLs has a record with render_mode 'http' or is
\* on the fallback list of that run.
C30_ConcurrentRunsKeepOrder ==
  server.concurrent
    => /\ \A o \in server.outcomes : o.crawler = "playwright" => o.needsJs
       /\ \A r \in 1..MaxRequests :
            server.requests[r].pc \in {"ran", "responded"}
              => \A u \in Range(server.requests[r].urls) :
                   \/ DocsOf(dataset, u, "http") # {}
                   \/ u \in Range(server.requests[r].fallbackUrls)

\* C22: a ContentHarvester whose seed list is empty is rejected before a
\* pipeline starts: its run() never gets as far as running a crawler.
C22_EmptySeedsRejected ==
  (variant = "harvester" /\ startUrls = <<>>)
    => pc \notin {"fast", "barrier", "render", "done"}

\* C28: in every successful /harvest response stats.total is the number of
\* items in data and stats.total = stats.http + stats.js, whatever records
\* of ContentHarvester the dataset holds.
C28_ResponseStats ==
  (call.fn = "harvestResponse") =>
    \A k \in 1..Len(ret) :
      /\ ret[k].success
      /\ ret[k].stats.total = Len(ret[k].data)
      /\ ret[k].stats.total = ret[k].stats.http + ret[k].stats.js

\* A response has been built from a dataset that holds a record of each
\* render mode for the request and a record the filter leaves out.
C28_Witness ==
  /\ call.fn = "harvestResponse"
  /\ ret # <<>>
  /\ ret[1].stats.http > 0
  /\ ret[1].stats.js > 0
  /\ Len(ret[1].data) < Len(call.items)

====
